---- MODULE Spec2Model ----
(***************************************************************************)
(* Model of the scripted two-character skit (alecgrater/animation):        *)
(*   - src/src/animation.py   AnimationController, the phase state machine *)
(*   - src/src/character.py   Character, the moving entities               *)
(*   - src/src/audio.py       AudioManager, the single current-sound slot  *)
(*   - src/export_tiktok_final.py  the frame loop and create_audio_track   *)
(*                                                                         *)
(* Times are integer milliseconds, x positions are integer pixels.  The    *)
(* y position is kept in 1/YScale pixel so that the fractional lift of the *)
(* abduction phase stays exact.  Render-only outputs (cat_x, cat_scale,    *)
(* ufo_y, beam_alpha, walk_frame, talk_frame) are read by no transition    *)
(* and are left out.                                                       *)
(***************************************************************************)
EXTENDS Integers, Sequences, FiniteSets, TLC

\* ------------------------------------------------------------------ config.py
SCREEN_WIDTH == 1000
SCREEN_HEIGHT == 600
FPS == 60
CHARACTER_WIDTH == 40
CHARACTER_HEIGHT == 60
CHARACTER_SPEED == 3
COLLISION_DIALOGUE_DURATION == 2000
KIDDING_DIALOGUE_DURATION == 3000
HEY_YA_DIALOGUE_DURATION == 2000
COLLISION_LOOP_DURATION == 6000
FINAL_DIALOGUE_1_DURATION == 2500
FINAL_DIALOGUE_2_DURATION == 2000

\* ---------------------------------------------------- literals of animation.py
CAT_RUN_DURATION == 700
BUMP_BACKUP_DURATION == 500
BUMP_TARGET == 5
BUMP_SPEED == 3
LOOP_SPEED == 2
WALK_OUT_SPEED == 3
SEPARATION == 5
MEET_MARGIN == 50
GRACE_PERIOD == 400
ABDUCTION_DURATION == 4000
LIFT_START == 1500
LIFT_SPAN == 2000
AUTO_CLOSE_DELAY == 1000

\* y is stored in 1/YScale pixel: lift_progress * 2 = min(2, (e - 1500) / 1000)
YScale == 1000

\* Python's None for the integer-valued finished_time
None == -1

\* ------------------------------------------------------------- AnimationPhase
PhaseOrder ==
    << "CAT_RUN", "WALKING_IN", "COLLISION", "KIDDING_DIALOGUE",
       "HEY_YA_DIALOGUE", "BUMP_SEQUENCE", "COLLISION_LOOP",
       "FINAL_DIALOGUE_1", "FINAL_DIALOGUE_2", "ALIEN_ABDUCTION",
       "WALKING_OUT", "FINISHED" >>

AnimationPhase == { PhaseOrder[i] : i \in 1..Len(PhaseOrder) }

PhaseIndex(p) == CHOOSE i \in 1..Len(PhaseOrder) : PhaseOrder[i] = p

\* ------------------------------------------------------------ dialogue lines
WATCH_IT == "WATCH IT!"
JUST_KIDDING == "Just kidding, running into people is fun!"
HEY_YA == "Hey ya!"
GO_TO_WORK == "Okay I have to go to work"
DONT_CARE == "I don't care"

DialogueLines == { WATCH_IT, JUST_KIDDING, HEY_YA, GO_TO_WORK, DONT_CARE }

\* ------------------------------------------------------------------ inputs
\* Tick step patterns: the frame loop's successive timestamp increments, repeated
\* cyclically.  60 and 120 frames per second, slower loops, a loop that stalls
\* and a loop that reports the same timestamp twice.
TickPatterns ==
    { <<8>>, <<16>>, <<17>>, <<33>>, <<100>>, <<350>>, <<1000>>,
      <<0, 50>>, <<16, 16, 600>> }

\* pygame.time.get_ticks() when the frame loop starts
StartTimes == { 0, 3 }

\* Which of the three effect sounds loaded (None otherwise)
SoundConfigs ==
    { [walking |-> TRUE, collision |-> TRUE, meow |-> TRUE],
      [walking |-> FALSE, collision |-> FALSE, meow |-> FALSE] }

\* preload_dialogue: the measured length of every line that loaded
LoadedDurations ==
    (WATCH_IT :> 1200) @@ (JUST_KIDDING :> 2800) @@ (HEY_YA :> 600)
        @@ (GO_TO_WORK :> 1900) @@ (DONT_CARE :> 1000)

NoDurations == [l \in {} |-> 0]

DurationConfigs == { NoDurations, LoadedDurations }

\* pygame.time.get_ticks() read inside update() is the loop's reading or later
WallLags == { 0, 1 }

Min(a, b) == IF a <= b THEN a ELSE b
Max(a, b) == IF a >= b THEN a ELSE b

\* ------------------------------------------------------------------ Character
NewCharacter(x, y, direction) ==
    [ x |-> x, y |-> y * YScale,
      width |-> CHARACTER_WIDTH, height |-> CHARACTER_HEIGHT,
      speed |-> CHARACTER_SPEED, direction |-> direction,
      is_smiling |-> FALSE, is_walking |-> FALSE, is_talking |-> FALSE ]

move(ch) == [ch EXCEPT !.x = @ + ch.speed * ch.direction]

get_center_x(ch) == ch.x + ch.width \div 2

\* int() of a float coordinate: truncation toward zero
TruncPx(v) == IF v >= 0 THEN v \div YScale ELSE -((-v) \div YScale)

get_rect(ch) ==
    [ left |-> ch.x, top |-> TruncPx(ch.y), w |-> ch.width, h |-> ch.height ]

\* pygame.Rect.colliderect: strict overlap, touching edges do not collide
colliderect_never(r1, r2) == FALSE

colliderect(r1, r2) ==
    /\ r1.left < r2.left + r2.w
    /\ r2.left < r1.left + r1.w
    /\ r1.top < r2.top + r2.h
    /\ r2.top < r1.top + r1.h

set_walking(ch, b) == [ch EXCEPT !.is_walking = b]
set_smiling(ch, b) == [ch EXCEPT !.is_smiling = b]
set_talking_stuck(ch, b) == [ch EXCEPT !.is_talking = TRUE]
set_talking(ch, b) == [ch EXCEPT !.is_talking = b]
set_speed(ch, v) == [ch EXCEPT !.speed = v]
reverse_direction_halt(ch) == [ch EXCEPT !.direction = 0]
reverse_direction(ch) == [ch EXCEPT !.direction = @ * (-1)]

\* --------------------------------------------------------------- AudioManager
\* current_sound is "None", "walking" or a dialogue line; walking_channels is
\* walking_sound.get_num_channels().
play_sound(c, s) == [c EXCEPT !.current_sound = s]

play_looping_sound(c) ==
    [c EXCEPT !.current_sound = "walking",
              !.walking_channels = @ + 1,
              !.loop_starts = @ + 1]

stop_current_sound_forgets(c) == [c EXCEPT !.current_sound = "None"]

stop_current_sound(c) ==
    IF c.current_sound = "None" THEN c
    ELSE [c EXCEPT !.current_sound = "None",
                   !.walking_channels =
                       IF c.current_sound = "walking" THEN 0 ELSE @]

is_sound_playing_never(c) == FALSE

is_sound_playing(c) == c.current_sound = "walking" /\ c.walking_channels > 0

\* ------------------------------------------------------- AnimationController
NewController(sounds, durations) ==
    [ phase |-> "CAT_RUN",
      char1 |-> NewCharacter(-50, SCREEN_HEIGHT - 200, 1),
      char2 |-> NewCharacter(SCREEN_WIDTH + 10, SCREEN_HEIGHT - 200, -1),
      walking_sound |-> sounds.walking,
      collision_sound |-> sounds.collision,
      meow_sound |-> sounds.meow,
      dialogue_durations |-> durations,
      dialogue_timer |-> 0,
      collision_start_time |-> 0,
      current_dialogue |-> "",
      dialogue_speaker |-> "",
      finished_time |-> None,
      bump_count |-> 0,
      bump_state |-> "approaching",
      bump_timer |-> 0,
      subtitle_start_time |-> 0,
      abduction_start_time |-> 0,
      cat_start_time |-> 0,
      meow_played |-> FALSE,
      current_sound |-> "None",
      walking_channels |-> 0,
      loop_starts |-> 0,
      meow_plays |-> 0,
      collision_plays |-> 0,
      dialogue_plays |-> 0 ]

duration_of_none(c, line, default) ==
    IF line \in DOMAIN c.dialogue_durations
    THEN c.dialogue_durations[line] ELSE 0

\* dialogue_durations.get(line, default)
duration_of(c, line, default) ==
    IF line \in DOMAIN c.dialogue_durations
    THEN c.dialogue_durations[line] ELSE default

\* if self.current_dialogue in self.dialogue_audio: play it
play_dialogue(c, line) ==
    IF line \in DOMAIN c.dialogue_durations
    THEN IF line = WATCH_IT
         THEN [c EXCEPT !.dialogue_plays = @ + 2]
         ELSE [play_sound(c, line) EXCEPT !.dialogue_plays = @ + 1]
    ELSE c

play_collision_nudged(c) ==
    IF c.collision_sound
    THEN [c EXCEPT !.collision_plays = @ + 1, !.char1.x = @ - 1]
    ELSE c

play_collision(c) ==
    IF c.collision_sound THEN [c EXCEPT !.collision_plays = @ + 1] ELSE c

manage_walking_sound(c) ==
    LET is_anyone_walking ==
            \/ c.char1.is_walking /\ c.char1.speed > 0
            \/ c.char2.is_walking /\ c.char2.speed > 0
    IN  IF is_anyone_walking
        THEN IF c.walking_sound /\ ~is_sound_playing(c)
             THEN play_looping_sound(c) ELSE c
        ELSE IF c.walking_sound /\ is_sound_playing(c)
             THEN stop_current_sound(c) ELSE c


\* ---- CAT_RUN
transition_to_walking_in(c) == [c EXCEPT !.phase = "WALKING_IN"]

\* progress >= 0.55 with progress = time_elapsed / 700
meow_due(time_elapsed) == time_elapsed * 100 >= 55 * CAT_RUN_DURATION

cat_run_over(time_elapsed) == ~(time_elapsed < CAT_RUN_DURATION)

update_cat_run(c, current_time) ==
    LET c0 == IF c.cat_start_time = 0
              THEN [c EXCEPT !.cat_start_time = current_time] ELSE c
        time_elapsed == current_time - c0.cat_start_time
    IN  IF ~cat_run_over(time_elapsed)
        THEN IF meow_due(time_elapsed) /\ ~c0.meow_played /\ c0.meow_sound
             THEN [c0 EXCEPT !.meow_plays = @ + 1, !.meow_played = TRUE]
             ELSE c0
        ELSE transition_to_walking_in(c0)

\* ---- WALKING_IN
transition_to_collision_loop_on(c, current_time) ==
    LET c1 == [c EXCEPT
                 !.phase = "COLLISION",
                 !.char1 = set_talking(set_smiling(set_walking(set_speed(@, 0), FALSE), TRUE), TRUE),
                 !.char2 = set_talking(set_smiling(set_walking(set_speed(@, 0), FALSE), TRUE), TRUE)]
        c2 == [c1 EXCEPT
                 !.dialogue_timer = current_time,
                 !.subtitle_start_time = current_time,
                 !.current_dialogue = WATCH_IT,
                 !.dialogue_speaker = "both"]
    IN  play_dialogue(play_collision(c2), WATCH_IT)

transition_to_collision(c, current_time) ==
    LET c1 == [c EXCEPT
                 !.phase = "COLLISION",
                 !.char1 = set_talking(set_smiling(set_walking(set_speed(@, 0), FALSE), TRUE), TRUE),
                 !.char2 = set_talking(set_smiling(set_walking(set_speed(@, 0), FALSE), TRUE), TRUE)]
        c2 == [stop_current_sound(c1) EXCEPT
                 !.dialogue_timer = current_time,
                 !.subtitle_start_time = current_time,
                 !.current_dialogue = WATCH_IT,
                 !.dialogue_speaker = "both"]
    IN  play_dialogue(play_collision(c2), WATCH_IT)

close_to_center(c) ==
    /\ get_center_x(c.char1) >= SCREEN_WIDTH \div 2 - MEET_MARGIN
    /\ get_center_x(c.char2) <= SCREEN_WIDTH \div 2 + MEET_MARGIN


update_walking_in_late(c, current_time) ==
    LET c1 == [c EXCEPT !.char1 = move(set_walking(@, TRUE)),
                        !.char2 = move(set_walking(@, TRUE))]
        c2 == manage_walking_sound(c1)
    IN  IF close_to_center(c)
        THEN transition_to_collision(c2, current_time) ELSE c2

update_walking_in(c, current_time) ==
    LET c1 == [c EXCEPT !.char1 = move(set_walking(@, TRUE)),
                        !.char2 = move(set_walking(@, TRUE))]
        c2 == manage_walking_sound(c1)
    IN  IF close_to_center(c2)
        THEN transition_to_collision(c2, current_time) ELSE c2

\* ---- the dialogue phases

dialogue_over_at(current_time, timer, duration) == current_time - timer >= duration

dialogue_over(current_time, timer, duration) == current_time - timer > duration

transition_to_kidding_dialogue(c, current_time) ==
    play_dialogue(
        [c EXCEPT !.phase = "KIDDING_DIALOGUE",
                  !.dialogue_timer = current_time,
                  !.subtitle_start_time = current_time,
                  !.current_dialogue = JUST_KIDDING,
                  !.dialogue_speaker = "char1",
                  !.char1 = set_talking(@, TRUE),
                  !.char2 = set_talking(@, FALSE)],
        JUST_KIDDING)

update_collision(c, current_time) ==
    LET duration == duration_of(c, WATCH_IT, COLLISION_DIALOGUE_DURATION)
    IN  IF dialogue_over(current_time, c.dialogue_timer, duration)
        THEN transition_to_kidding_dialogue(
                 [c EXCEPT !.char1 = set_talking(@, FALSE),
                           !.char2 = set_talking(@, FALSE)], current_time)
        ELSE c

transition_to_hey_ya_dialogue(c, current_time) ==
    play_dialogue(
        [c EXCEPT !.phase = "HEY_YA_DIALOGUE",
                  !.dialogue_timer = current_time,
                  !.subtitle_start_time = current_time,
                  !.current_dialogue = HEY_YA,
                  !.dialogue_speaker = "char2",
                  !.char1 = set_talking(@, FALSE),
                  !.char2 = set_talking(@, TRUE)],
        HEY_YA)

update_kidding_dialogue(c, current_time) ==
    LET duration == duration_of(c, JUST_KIDDING, KIDDING_DIALOGUE_DURATION)
    IN  IF dialogue_over(current_time, c.dialogue_timer, duration)
        THEN transition_to_hey_ya_dialogue(
                 [c EXCEPT !.char1 = set_talking(@, FALSE)], current_time)
        ELSE c

transition_to_bump_sequence_apart(c, current_time) ==
    [c EXCEPT !.phase = "BUMP_SEQUENCE",
              !.bump_count = 0,
              !.bump_state = "approaching",
              !.bump_timer = current_time,
              !.char1 = [set_walking(set_speed(set_smiling(@, TRUE), BUMP_SPEED), TRUE)
                            EXCEPT !.direction = -1],
              !.char2 = [set_walking(set_speed(set_smiling(@, TRUE), BUMP_SPEED), TRUE)
                            EXCEPT !.direction = 1],
              !.current_dialogue = ""]

transition_to_bump_sequence(c, current_time) ==
    [c EXCEPT !.phase = "BUMP_SEQUENCE",
              !.bump_count = 0,
              !.bump_state = "approaching",
              !.bump_timer = current_time,
              !.char1 = [set_walking(set_speed(set_smiling(@, TRUE), BUMP_SPEED), TRUE)
                            EXCEPT !.direction = 1],
              !.char2 = [set_walking(set_speed(set_smiling(@, TRUE), BUMP_SPEED), TRUE)
                            EXCEPT !.direction = -1],
              !.current_dialogue = ""]


transition_to_collision_loop(c, current_time) ==
    [c EXCEPT !.phase = "COLLISION_LOOP",
              !.collision_start_time = current_time,
              !.char1 = set_walking(set_speed(set_smiling(@, TRUE), LOOP_SPEED), TRUE),
              !.char2 = set_walking(set_speed(set_smiling(@, TRUE), LOOP_SPEED), TRUE),
              !.current_dialogue = ""]

update_hey_ya_dialogue_skip(c, current_time) ==
    LET duration == duration_of(c, HEY_YA, HEY_YA_DIALOGUE_DURATION)
    IN  IF dialogue_over(current_time, c.dialogue_timer, duration)
        THEN transition_to_collision_loop(
                 transition_to_bump_sequence(
                     [c EXCEPT !.char2 = set_talking(@, FALSE)], current_time),
                 current_time)
        ELSE c

update_hey_ya_dialogue(c, current_time) ==
    LET duration == duration_of(c, HEY_YA, HEY_YA_DIALOGUE_DURATION)
    IN  IF dialogue_over(current_time, c.dialogue_timer, duration)
        THEN transition_to_bump_sequence(
                 [c EXCEPT !.char2 = set_talking(@, FALSE)], current_time)
        ELSE c

\* ---- BUMP_SEQUENCE

bump_done_late(c) == c.bump_count >= BUMP_TARGET + 1

bump_done_early(c) == c.bump_count >= BUMP_TARGET - 1

bump_done(c) == c.bump_count >= BUMP_TARGET

backup_over_at(c, current_time) ==
    current_time - c.bump_timer >= BUMP_BACKUP_DURATION

backup_over(c, current_time) == current_time - c.bump_timer > BUMP_BACKUP_DURATION

update_bump_sequence(c, current_time) ==
    LET c1 == manage_walking_sound(
                  [c EXCEPT !.char1 = move(@), !.char2 = move(@)])
    IN  IF c.bump_state = "approaching"
        THEN IF colliderect(get_rect(c1.char1), get_rect(c1.char2))
             THEN play_collision(
                      [c1 EXCEPT !.bump_count = @ + 1,
                                 !.bump_state = "backing_up",
                                 !.bump_timer = current_time,
                                 !.char1.direction = -1,
                                 !.char2.direction = 1])
             ELSE c1
        ELSE IF c.bump_state = "backing_up"
        THEN IF backup_over(c1, current_time)
             THEN IF bump_done(c1)
                  THEN transition_to_collision_loop(c1, current_time)
                  ELSE [c1 EXCEPT !.bump_state = "approaching",
                                  !.char1.direction = 1,
                                  !.char2.direction = -1]
             ELSE c1
        ELSE c

\* ---- COLLISION_LOOP
transition_to_final_dialogue_1(c, current_time) ==
    LET c1 == [c EXCEPT
                 !.phase = "FINAL_DIALOGUE_1",
                 !.char1 = set_talking(set_walking(set_smiling(set_speed(@, 0), TRUE), FALSE), TRUE),
                 !.char2 = set_talking(set_walking(set_smiling(set_speed(@, 0), TRUE), FALSE), FALSE)]
        c2 == [stop_current_sound(c1) EXCEPT
                 !.dialogue_timer = current_time,
                 !.subtitle_start_time = current_time,
                 !.current_dialogue = GO_TO_WORK,
                 !.dialogue_speaker = "char1"]
    IN  play_dialogue(c2, GO_TO_WORK)

bounce_off_each_other_stuck(c) ==
    IF colliderect(get_rect(c.char1), get_rect(c.char2))
    THEN play_collision(
             [c EXCEPT !.char1 = reverse_direction(@),
                       !.char2 = reverse_direction(@)])
    ELSE c

\* Bounce off each other: reverse both, push 5px apart, play the collision sound
bounce_off_each_other(c) ==
    IF colliderect(get_rect(c.char1), get_rect(c.char2))
    THEN play_collision(
             [c EXCEPT !.char1 = [reverse_direction(@) EXCEPT !.x = @ - SEPARATION],
                       !.char2 = [reverse_direction(@) EXCEPT !.x = @ + SEPARATION]])
    ELSE c

\* Bounce off screen edges

bounce_off_edge_late(ch) ==
    IF ch.x < 0 THEN [ch EXCEPT !.direction = 1]
    ELSE IF ch.x > SCREEN_WIDTH THEN [ch EXCEPT !.direction = -1]
    ELSE ch

bounce_off_edge(ch) ==
    IF ch.x < 0 THEN [ch EXCEPT !.direction = 1]
    ELSE IF ch.x > SCREEN_WIDTH - ch.width THEN [ch EXCEPT !.direction = -1]
    ELSE ch

loop_over(collision_loop_time) == collision_loop_time > COLLISION_LOOP_DURATION

update_collision_loop(c, current_time) ==
    LET collision_loop_time == current_time - c.collision_start_time
        c1 == manage_walking_sound(
                  [c EXCEPT !.char1 = move(@), !.char2 = move(@)])
        c2 == bounce_off_each_other(c1)
        c3 == [c2 EXCEPT !.char1 = bounce_off_edge(@),
                         !.char2 = bounce_off_edge(@)]
    IN  IF loop_over(collision_loop_time)
        THEN transition_to_final_dialogue_1(c3, current_time) ELSE c3

\* ---- FINAL_DIALOGUE_1, FINAL_DIALOGUE_2
transition_to_final_dialogue_2(c, current_time) ==
    play_dialogue(
        [c EXCEPT !.phase = "FINAL_DIALOGUE_2",
                  !.dialogue_timer = current_time,
                  !.subtitle_start_time = current_time,
                  !.current_dialogue = DONT_CARE,
                  !.dialogue_speaker = "char2",
                  !.char1 = set_talking(@, FALSE),
                  !.char2 = set_talking(@, TRUE)],
        DONT_CARE)

update_final_dialogue_1(c, current_time) ==
    LET duration == duration_of(c, GO_TO_WORK, FINAL_DIALOGUE_1_DURATION)
    IN  IF dialogue_over(current_time, c.dialogue_timer, duration)
        THEN transition_to_final_dialogue_2(
                 [c EXCEPT !.char1 = set_talking(@, FALSE)], current_time)
        ELSE c

transition_to_alien_abduction(c, current_time) ==
    [c EXCEPT !.phase = "ALIEN_ABDUCTION",
              !.abduction_start_time = current_time,
              !.char1 = set_walking(set_speed(@, 0), FALSE),
              !.char2 = set_walking(set_speed(@, 0), FALSE),
              !.current_dialogue = ""]

update_final_dialogue_2_no_grace(c, current_time) ==
    LET duration == duration_of(c, DONT_CARE, FINAL_DIALOGUE_2_DURATION)
    IN  IF dialogue_over(current_time, c.dialogue_timer, duration)
        THEN transition_to_alien_abduction(
                 [c EXCEPT !.char2 = set_talking(@, FALSE)], current_time)
        ELSE c

update_final_dialogue_2(c, current_time) ==
    LET duration == duration_of(c, DONT_CARE, FINAL_DIALOGUE_2_DURATION)
    IN  IF dialogue_over(current_time, c.dialogue_timer, duration + GRACE_PERIOD)
        THEN transition_to_alien_abduction(
                 [c EXCEPT !.char2 = set_talking(@, FALSE)], current_time)
        ELSE c

\* ---- ALIEN_ABDUCTION
transition_to_walking_out(c) ==
    [c EXCEPT !.phase = "WALKING_OUT",
              !.char1 = [set_smiling(set_walking(set_speed(@, WALK_OUT_SPEED), TRUE), TRUE)
                            EXCEPT !.direction = 1],
              !.char2 = [set_smiling(set_walking(set_speed(@, WALK_OUT_SPEED), TRUE), TRUE)
                            EXCEPT !.direction = -1],
              !.current_dialogue = ""]

\* lift_progress * 2 pixels, in 1/YScale pixel
lift(time_elapsed) ==
    (Min(LIFT_SPAN, time_elapsed - LIFT_START) * 2 * YScale) \div LIFT_SPAN

abduction_over(time_elapsed) == time_elapsed > ABDUCTION_DURATION

update_alien_abduction(c, current_time) ==
    LET time_elapsed == current_time - c.abduction_start_time
        c1 == IF time_elapsed > LIFT_START
              THEN [c EXCEPT !.char2.y = @ - lift(time_elapsed)] ELSE c
    IN  IF abduction_over(time_elapsed) THEN transition_to_walking_out(c1) ELSE c1

\* ---- WALKING_OUT
transition_to_finished_stamped(c) ==
    [stop_current_sound(
         [c EXCEPT !.phase = "FINISHED",
                   !.char1 = set_smiling(set_walking(@, FALSE), TRUE),
                   !.char2 = set_smiling(set_walking(@, FALSE), TRUE)])
       EXCEPT !.finished_time = 0]

transition_to_finished(c) ==
    [stop_current_sound(
         [c EXCEPT !.phase = "FINISHED",
                   !.char1 = set_smiling(set_walking(@, FALSE), TRUE),
                   !.char2 = set_smiling(set_walking(@, FALSE), TRUE)])
       EXCEPT !.finished_time = None]

both_off_screen_never(c) == FALSE

both_off_screen_partly(c) ==
    c.char1.x > SCREEN_WIDTH - c.char1.width /\ c.char2.x < 0

both_off_screen(c) ==
    c.char1.x > SCREEN_WIDTH /\ c.char2.x < -c.char2.width

update_walking_out(c, current_time) ==
    LET c1 == manage_walking_sound(
                  [c EXCEPT !.char1 = move(@), !.char2 = move(@)])
    IN  IF both_off_screen(c1) THEN transition_to_finished(c1) ELSE c1

\* ---- FINISHED; get_ticks is pygame.time.get_ticks() at the time of the call

update_finished_restart(c, get_ticks) ==
    [c EXCEPT !.finished_time = IF @ = None THEN get_ticks ELSE @,
              !.current_dialogue = "",
              !.dialogue_speaker = "",
              !.phase = IF c.finished_time = None THEN @ ELSE "CAT_RUN"]

update_finished(c, get_ticks) ==
    [c EXCEPT !.finished_time = IF @ = None THEN get_ticks ELSE @,
              !.current_dialogue = "",
              !.dialogue_speaker = ""]

\* ---- AnimationController.update
update(c, current_time, get_ticks) ==
    CASE c.phase = "CAT_RUN" -> update_cat_run(c, current_time)
      [] c.phase = "WALKING_IN" -> update_walking_in(c, current_time)
      [] c.phase = "COLLISION" -> update_collision(c, current_time)
      [] c.phase = "KIDDING_DIALOGUE" -> update_kidding_dialogue(c, current_time)
      [] c.phase = "HEY_YA_DIALOGUE" -> update_hey_ya_dialogue(c, current_time)
      [] c.phase = "BUMP_SEQUENCE" -> update_bump_sequence(c, current_time)
      [] c.phase = "COLLISION_LOOP" -> update_collision_loop(c, current_time)
      [] c.phase = "FINAL_DIALOGUE_1" -> update_final_dialogue_1(c, current_time)
      [] c.phase = "FINAL_DIALOGUE_2" -> update_final_dialogue_2(c, current_time)
      [] c.phase = "ALIEN_ABDUCTION" -> update_alien_abduction(c, current_time)
      [] c.phase = "WALKING_OUT" -> update_walking_out(c, current_time)
      [] c.phase = "FINISHED" -> update_finished(c, get_ticks)


\* --------------------------------------------------------------- asset files
MEOW_FILE == "assets/00_00_meow.wav"
COLLIDE_FILE == "assets/06_collide.wav"
WALKING_FILE == "assets/walking.wav"
WATCH_IT_FILE == "assets/01_01_watch_it.wav"
WATCH_IT_FILE_2 == "assets/01_02_watch_it.wav"
JUST_KIDDING_FILE == "assets/02_01_just_kidding.wav"
HEY_YA_FILE == "assets/03_02_hey_ya.wav"
GO_TO_WORK_FILE == "assets/04_01_go_to_work.wav"
DONT_CARE_FILE == "assets/05_02_i_dont_care.wav"

DialogueFiles == { WATCH_IT_FILE, WATCH_IT_FILE_2, JUST_KIDDING_FILE,
                   HEY_YA_FILE, GO_TO_WORK_FILE, DONT_CARE_FILE }

AssetFiles == { MEOW_FILE, COLLIDE_FILE, WALKING_FILE } \cup DialogueFiles

\* an entry of audio_events; duration_ms is used by walking_start only and
\* file by dialogue only
AudioEvent(type, timestamp_ms, duration_ms, file) ==
    [ type |-> type, timestamp_ms |-> timestamp_ms,
      duration_ms |-> duration_ms, file |-> file ]

\* ------------------------------------------------------- create_audio_track
\* the file each branch of create_audio_track opens
clip_file(event) ==
    CASE event.type = "meow" -> MEOW_FILE
      [] event.type = "collision" -> COLLIDE_FILE
      [] event.type = "dialogue" -> event.file
      [] event.type = "walking_start" -> WALKING_FILE

\* AudioFileClip(file).duration in ms: the walking clip's length is an input,
\* the other files get representative lengths
clip_duration(file, L) ==
    CASE file = WALKING_FILE -> L
      [] file = MEOW_FILE -> 400
      [] file = COLLIDE_FILE -> 250
      [] OTHER -> 1200

loops_needed_short(duration, clip_len) == duration \div clip_len

\* int(duration_s / walking_clip.duration) + 1
loops_needed(duration, clip_len) == duration \div clip_len + 1

\* concatenate_audioclips([walking_clip] * loops_needed)
concatenate(clip_len, loops) == clip_len * loops

\* clip.subclip(0, t_end): the new clip's duration is t_end
subclip(material, t_end) == [duration |-> t_end, material |-> material]

\* The clip one event places, or << >> when opening the file raises and the
\* event is skipped by the except branch
place_event(event, index, loadable, L) ==
    IF clip_file(event) \notin loadable THEN << >>
    ELSE IF event.type = "walking_start"
    THEN LET loops == loops_needed(event.duration_ms, L)
             looped == subclip(concatenate(L, loops), event.duration_ms)
         IN  << [ index |-> index, type |-> event.type,
                  start |-> event.timestamp_ms,
                  duration |-> looped.duration,
                  material |-> looped.material, loops |-> loops ] >>
    ELSE LET len == clip_duration(clip_file(event), L)
         IN  << [ index |-> index, type |-> event.type,
                  start |-> event.timestamp_ms,
                  duration |-> len, material |-> len, loops |-> 1 ] >>

RECURSIVE place_all(_, _, _, _)
place_all(events, index, loadable, L) ==
    IF index > Len(events) THEN << >>
    ELSE place_event(events[index], index, loadable, L)
             \o place_all(events, index + 1, loadable, L)

\* CompositeAudioClip(clips).duration: the latest end of its clips
composite_duration(clips) ==
    LET ends == { clips[i].start + clips[i].duration : i \in 1..Len(clips) }
    IN  CHOOSE e \in ends : \A f \in ends : f <= e

create_audio_track(animation_events, total, loadable, L) ==
    LET audio_clips == place_all(animation_events, 1, loadable, L)
    IN  IF audio_clips # << >>
        THEN LET final_audio == [duration |-> composite_duration(audio_clips)]
                 written == [final_audio EXCEPT !.duration = total]
             IN  [ mixed |-> TRUE, created |-> TRUE,
                   duration |-> written.duration, clips |-> audio_clips ]
        ELSE [ mixed |-> TRUE, created |-> FALSE,
               duration |-> None, clips |-> << >> ]

\* ffmpeg -i frames -i audio_file: fails when the audio file was not written
ffmpeg_ok(tr) == tr.created

\* ------------------------------------------------------------ the frame loop
VARIABLES
    anim,           \* the AnimationController with its two characters
    clock,          \* current_time of the latest loop iteration
    pattern, pidx,  \* the tick step pattern and the position in it
    running,        \* the frame loop's running flag
    ran,            \* phase whose handler the latest update executed
    entered,        \* per phase: timestamp of the tick that entered it
    first_nonzero,  \* timestamp of the first tick with a non-zero timestamp
    entry_plays,    \* per phase: collision_plays when it was entered
    frame_count,    \* frames saved so far
    last_phase,     \* the phase the recorder saw on the previous iteration
    walking_start_time, \* start of the walking span the recorder has open
    quit,           \* a pygame.QUIT event was received
    played,         \* what the mixer has played: loop intervals, one-shots
    prev,           \* the controller as it was before the latest update
    animB, clockB, stepB, runningB, enteredB,   \* a second run, for comparison
    timeline, total_duration, assets, walking_len, track  \* the mixdown

ctlVars == << anim, clock, pattern, pidx, running, ran, entered,
              first_nonzero, entry_plays, frame_count, last_phase,
              walking_start_time, quit, played, prev >>
runBVars == << animB, clockB, stepB, runningB, enteredB >>
mixVars == << timeline, total_duration, assets, walking_len, track >>
vars == << ctlVars, runBVars, mixVars >>

NotEntered == [p \in AnimationPhase |-> None]

note_entry(ent, before, after, t) ==
    IF after.phase # before.phase THEN [ent EXCEPT ![after.phase] = t] ELSE ent

\* while running: ... if FINISHED and finished_time and
\* current_time - finished_time > 1000: running = False
keeps_running(c, current_time) ==
    ~( /\ c.phase = "FINISHED"
       /\ c.finished_time # None /\ c.finished_time # 0
       /\ current_time - c.finished_time > AUTO_CLOSE_DELAY )

\* ---- the event recorder of the export loop
\* `if walking_start_time:` is false for None and for 0
is_set(v) == v # None /\ v # 0

span_event_backwards(start, current_time) ==
    AudioEvent("walking_start", start, start - current_time, "")

span_event(start, current_time) ==
    AudioEvent("walking_start", start, current_time - start, "")

\* if walking_start_time: append the span that ends now
close_span(events, start, current_time) ==
    IF is_set(start) THEN Append(events, span_event(start, current_time))
    ELSE events

dialogue_files_one_voice(current_phase) ==
    CASE current_phase = "COLLISION" -> << WATCH_IT_FILE >>
      [] current_phase = "KIDDING_DIALOGUE" -> << JUST_KIDDING_FILE >>
      [] current_phase = "HEY_YA_DIALOGUE" -> << HEY_YA_FILE >>
      [] current_phase = "FINAL_DIALOGUE_1" -> << GO_TO_WORK_FILE >>
      [] current_phase = "FINAL_DIALOGUE_2" -> << DONT_CARE_FILE >>
      [] OTHER -> << >>

\* the dialogue files recorded when a phase is first seen
dialogue_files(current_phase) ==
    CASE current_phase = "COLLISION" -> << WATCH_IT_FILE, WATCH_IT_FILE_2 >>
      [] current_phase = "KIDDING_DIALOGUE" -> << JUST_KIDDING_FILE >>
      [] current_phase = "HEY_YA_DIALOGUE" -> << HEY_YA_FILE >>
      [] current_phase = "FINAL_DIALOGUE_1" -> << GO_TO_WORK_FILE >>
      [] current_phase = "FINAL_DIALOGUE_2" -> << DONT_CARE_FILE >>
      [] OTHER -> << >>

dialogue_events(current_phase, current_time) ==
    LET files == dialogue_files(current_phase)
    IN  [ i \in 1..Len(files) |->
              AudioEvent("dialogue", current_time, 0, files[i]) ]

\* if current_phase != last_phase: ... ; the result is the event list and the
\* open span's start
track_phase_change(events, start, last, current_phase, current_time, frames) ==
    IF current_phase = last
    THEN [audio_events |-> events, walking_start_time |-> start]
    ELSE
    CASE current_phase = "CAT_RUN" ->
           [ audio_events |->
                 IF frames > 0
                 THEN Append(events, AudioEvent("meow", current_time + 385, 0, ""))
                 ELSE events,
             walking_start_time |-> start ]
      [] current_phase \in { "WALKING_IN", "BUMP_SEQUENCE", "WALKING_OUT" } ->
           [ audio_events |-> events, walking_start_time |-> current_time ]
      [] current_phase = "COLLISION" ->
           [ audio_events |->
                 Append(close_span(events, start, current_time),
                        AudioEvent("collision", current_time, 0, ""))
                     \o dialogue_events(current_phase, current_time),
             walking_start_time |-> IF is_set(start) THEN None ELSE start ]
      [] current_phase = "COLLISION_LOOP" ->
           [ audio_events |-> close_span(events, start, current_time),
             walking_start_time |-> current_time ]
      [] current_phase = "FINAL_DIALOGUE_1" ->
           [ audio_events |->
                 close_span(events, start, current_time)
                     \o dialogue_events(current_phase, current_time),
             walking_start_time |-> IF is_set(start) THEN None ELSE start ]
      [] current_phase \in { "KIDDING_DIALOGUE", "HEY_YA_DIALOGUE",
                             "FINAL_DIALOGUE_2" } ->
           [ audio_events |->
                 events \o dialogue_events(current_phase, current_time),
             walking_start_time |-> start ]
      [] OTHER -> [audio_events |-> events, walking_start_time |-> start]

track_collisions_none(events, c, current_time) == events

\* in BUMP_SEQUENCE and COLLISION_LOOP: a collision event when the rectangles
\* overlap before the update
track_collisions(events, c, current_time) ==
    IF /\ c.phase \in { "BUMP_SEQUENCE", "COLLISION_LOOP" }
       /\ colliderect(get_rect(c.char1), get_rect(c.char2))
    THEN Append(events, AudioEvent("collision", current_time, 0, ""))
    ELSE events

\* after the update: the span still open is appended when the loop auto-closes
final_span(events, start, c, current_time) ==
    IF keeps_running(c, current_time) THEN events
    ELSE close_span(events, start, current_time)

\* ---- what the mixer has played (history of the AudioManager's calls)
NothingPlayed ==
    [ loops |-> << >>, loop_start |-> None,
      collisions |-> << >>, dialogues |-> << >> ]

loop_playing(c) == c.walking_channels > 0

note_played(h, before, after, current_time) ==
    LET h1 == IF ~loop_playing(before) /\ loop_playing(after)
              THEN [h EXCEPT !.loop_start = current_time]
              ELSE IF loop_playing(before) /\ ~loop_playing(after)
              THEN [h EXCEPT !.loops = Append(@, [start |-> h.loop_start,
                                                  stop |-> current_time]),
                             !.loop_start = None]
              ELSE h
        h2 == IF after.collision_plays > before.collision_plays
              THEN [h1 EXCEPT !.collisions = Append(@, current_time)]
              ELSE h1
    IN  IF after.dialogue_plays > before.dialogue_plays
        THEN [h2 EXCEPT !.dialogues =
                  Append(@, [line |-> after.current_dialogue,
                             time |-> current_time])]
        ELSE h2

InitCtl(patterns, starts, sounds, durations) ==
    /\ pattern \in patterns
    /\ pidx = 1
    /\ clock \in starts
    /\ anim \in { NewController(s, d) : s \in sounds, d \in durations }
    /\ running = TRUE
    /\ ran = "NONE"
    /\ entered = NotEntered
    /\ first_nonzero = None
    /\ entry_plays = NotEntered
    /\ frame_count = 0
    /\ last_phase = "None"
    /\ walking_start_time = None
    /\ quit = FALSE
    /\ played = NothingPlayed
    /\ prev = anim

IdleRunB ==
    /\ animB = anim
    /\ clockB = clock
    /\ stepB = 0
    /\ runningB = FALSE
    /\ enteredB = NotEntered

NoTrack == [mixed |-> FALSE, created |-> FALSE, duration |-> 0, clips |-> << >>]

IdleMix ==
    /\ timeline = << >>
    /\ total_duration = 0
    /\ assets = {}
    /\ walking_len = 0
    /\ track = NoTrack

\* One iteration of the frame loop: poll for QUIT, read the clock, record the
\* audio events, update, test for auto-close, save the frame
Tick ==
    /\ running
    /\ \E lag \in WallLags, q \in BOOLEAN :
         LET current_time == clock + pattern[pidx]
             next == update(anim, current_time, current_time + lag)
             seen == track_phase_change(timeline, walking_start_time,
                                        last_phase, anim.phase, current_time,
                                        frame_count)
             recorded == track_collisions(seen.audio_events, anim, current_time)
             ent0 == IF ran = "NONE"
                     THEN [entered EXCEPT !["CAT_RUN"] = current_time]
                     ELSE entered
         IN  /\ anim' = next
             /\ clock' = current_time
             /\ pattern' = pattern
             /\ pidx' = (pidx % Len(pattern)) + 1
             /\ ran' = anim.phase
             /\ entered' = note_entry(ent0, anim, next, current_time)
             /\ first_nonzero' =
                    IF first_nonzero = None /\ current_time # 0
                    THEN current_time ELSE first_nonzero
             /\ entry_plays' =
                    IF next.phase # anim.phase
                    THEN [entry_plays EXCEPT ![next.phase] = next.collision_plays]
                    ELSE entry_plays
             /\ quit' = q
             /\ running' = (~q /\ keeps_running(next, current_time))
             /\ last_phase' = anim.phase
             /\ walking_start_time' = seen.walking_start_time
             /\ timeline' = final_span(recorded, seen.walking_start_time,
                                       next, current_time)
             /\ frame_count' = frame_count + 1
             /\ played' = note_played(played, anim, next, current_time)
             /\ prev' = anim
    /\ UNCHANGED << runBVars, total_duration, assets, walking_len, track >>

\* The files the mixdown can open: those the driver and the controller loaded
\* their sounds from
loaded_files(c) ==
    (IF c.meow_sound THEN { MEOW_FILE } ELSE {})
        \cup (IF c.collision_sound THEN { COLLIDE_FILE } ELSE {})
        \cup (IF c.walking_sound THEN { WALKING_FILE } ELSE {})
        \cup (IF DOMAIN c.dialogue_durations # {} THEN DialogueFiles ELSE {})

\* total_duration_s = frame_count / FPS, kept in whole ms
total_duration_ms(frames) == (frames * 1000) \div FPS

\* After the loop: the recorded events and the duration go to the mixdown
ExportAudio ==
    /\ ~running
    /\ ~track.mixed
    /\ total_duration' = total_duration_ms(frame_count)
    /\ track' = create_audio_track(timeline, total_duration_ms(frame_count),
                                   assets, walking_len)
    /\ UNCHANGED << ctlVars, runBVars, timeline, assets, walking_len >>

InitExport ==
    /\ timeline = << >>
    /\ total_duration = 0
    /\ assets = loaded_files(anim)
    /\ walking_len \in { 800 }
    /\ track = NoTrack

Init ==
    /\ InitCtl(TickPatterns, StartTimes, SoundConfigs, DurationConfigs)
    /\ IdleRunB
    /\ InitExport

Next == Tick \/ ExportAudio

Spec == Init /\ [][Next]_vars


\* ------------------------------------------------------- a second run (pair)
\* The same loop over the second controller, at a constant tick step
TickB ==
    /\ runningB
    /\ ~running \/ clockB < clock
    /\ LET current_time == clockB + stepB
           next == update(animB, current_time, current_time)
           ent0 == IF enteredB["CAT_RUN"] = None
                   THEN [enteredB EXCEPT !["CAT_RUN"] = current_time]
                   ELSE enteredB
       IN  /\ animB' = next
           /\ clockB' = current_time
           /\ enteredB' = note_entry(ent0, animB, next, current_time)
           /\ runningB' = keeps_running(next, current_time)
    /\ UNCHANGED << stepB, ctlVars, mixVars >>

\* the first run's iteration, without a close signal
TickA == (~runningB \/ clock <= clockB) /\ Tick /\ ~quit'

\* the second run's tick steps
PairSteps == { 17, 20 }

AllSounds == [walking |-> TRUE, collision |-> TRUE, meow |-> TRUE]

InitPair ==
    /\ InitCtl({ <<16>> }, { 3 }, { AllSounds }, DurationConfigs)
    /\ animB = anim
    /\ clockB = clock
    /\ stepB \in PairSteps
    /\ runningB = TRUE
    /\ enteredB = NotEntered
    /\ IdleMix

NextPair == TickA \/ TickB

SpecPair == InitPair /\ [][NextPair]_vars

\* ------------------------------------------- the frame loop left to run
\* most iterations of the frame loop followed
MaxFrames == 4000

\* an iteration of the frame loop without a close signal
LiveTick == frame_count < MaxFrames /\ Tick /\ ~quit'

\* every tick pattern and both sets of dialogue durations, all sounds loaded
InitLive ==
    /\ InitCtl(TickPatterns, { 0 }, { AllSounds }, DurationConfigs)
    /\ IdleRunB
    /\ InitExport

NextLive == LiveTick

\* while running: the loop goes on to its next iteration as long as it can
SpecLive == InitLive /\ [][NextLive]_vars /\ WF_vars(LiveTick)

\* ------------------------------------ two runs that differ in their sounds
\* every combination of the three effect sounds loaded or None
SoundChoices == [walking : BOOLEAN, collision : BOOLEAN, meow : BOOLEAN]

\* the tick step both runs are fed
SoundSteps == { <<8>>, <<100>>, <<1000>> }

InitSound ==
    /\ InitCtl(SoundSteps, StartTimes, SoundConfigs, DurationConfigs)
    /\ animB \in { NewController(s, anim.dialogue_durations) : s \in SoundChoices }
    /\ clockB = clock
    /\ stepB = pattern[1]
    /\ runningB = TRUE
    /\ enteredB = NotEntered
    /\ IdleMix

NextSound == TickA \/ TickB

SpecSound == InitSound /\ [][NextSound]_vars

\* ------------------------------------------------------- mixdown inputs
\* longest Timeline handed to the mixdown
MaxEvents == 2

EventChoices ==
    { AudioEvent("meow", 385, 0, ""),
      AudioEvent("collision", 3000, 0, ""),
      AudioEvent("collision", 9000, 0, ""),
      AudioEvent("dialogue", 3000, 0, WATCH_IT_FILE),
      AudioEvent("walking_start", 1000, 2500, ""),
      AudioEvent("walking_start", 4000, 1600, ""),
      AudioEvent("walking_start", 0, 0, "") }

Timelines ==
    UNION { [1..n -> EventChoices] : n \in 0..MaxEvents }

TargetDurations == { 2000, 5000 }

AssetConfigs == { AssetFiles, AssetFiles \ { WALKING_FILE }, {} }

WalkingLengths == { 300, 800 }

InitMix ==
    /\ InitCtl({ <<16>> }, { 0 }, { AllSounds }, { NoDurations })
    /\ IdleRunB
    /\ timeline \in Timelines
    /\ total_duration \in TargetDurations
    /\ assets \in AssetConfigs
    /\ walking_len \in WalkingLengths
    /\ track = NoTrack

Mixdown ==
    /\ ~track.mixed
    /\ track' = create_audio_track(timeline, total_duration, assets, walking_len)
    /\ UNCHANGED << timeline, total_duration, assets, walking_len,
                    ctlVars, runBVars >>

NextMix == Mixdown

SpecMix == InitMix /\ [][NextMix]_vars

\* ===================================================================== claims
Idx(p) == PhaseIndex(p)

\* C1: a single update leaves the phase unchanged or advances it to the
\* immediate successor in the order CatRun .. Finished; it never moves the
\* phase backwards and never skips a phase (ran is the phase before the
\* latest update, anim.phase the phase after it).
C1_PhaseForwardByOne ==
    ran # "NONE" =>
        \/ anim.phase = ran
        \/ Idx(anim.phase) = Idx(ran) + 1

\* a run that went through the whole order, one phase at a time
C1_Witness ==
    /\ ran = "WALKING_OUT"
    /\ anim.phase = "FINISHED"
    /\ \A i \in 1..(Len(PhaseOrder) - 1) :
           /\ entered[PhaseOrder[i]] # None
           /\ entered[PhaseOrder[i]] <= entered[PhaseOrder[i + 1]]

\* C2: Finished is terminal: an update executed in Finished leaves the phase
\* Finished.
C2_FinishedTerminal == ran = "FINISHED" => anim.phase = "FINISHED"

\* updates were executed in Finished, at timestamps after the one that entered it
C2_Witness ==
    /\ ran = "FINISHED"
    /\ anim.phase = "FINISHED"
    /\ anim.finished_time # None
    /\ clock > anim.finished_time

\* The fixed duration D of a phase: a literal, or the measured length of the
\* phase's dialogue line with the configured default
FixedPhases ==
    { "CAT_RUN", "COLLISION", "KIDDING_DIALOGUE", "HEY_YA_DIALOGUE",
      "COLLISION_LOOP", "FINAL_DIALOGUE_1", "ALIEN_ABDUCTION" }

MeasuredOr(line, default) ==
    IF line \in DOMAIN anim.dialogue_durations
    THEN anim.dialogue_durations[line] ELSE default

FixedDuration(p) ==
    CASE p = "CAT_RUN" -> 700
      [] p = "COLLISION" -> MeasuredOr(WATCH_IT, 2000)
      [] p = "KIDDING_DIALOGUE" -> MeasuredOr(JUST_KIDDING, 3000)
      [] p = "HEY_YA_DIALOGUE" -> MeasuredOr(HEY_YA, 2000)
      [] p = "COLLISION_LOOP" -> 6000
      [] p = "FINAL_DIALOGUE_1" -> MeasuredOr(GO_TO_WORK, 2500)
      [] p = "ALIEN_ABDUCTION" -> 4000

\* elapsed time of the latest update, measured from the tick that entered the
\* phase it ran in
ElapsedSinceEntry == clock - entered[ran]

PhaseLeft == anim.phase # ran

C4_ExactlyFiveBumps ==
    /\ anim.bump_count \in 0..5
    /\ Idx(anim.phase) > Idx("BUMP_SEQUENCE") =>
           /\ anim.bump_count = 5
           /\ anim.bump_state = "backing_up"
           /\ entry_plays["COLLISION_LOOP"] - entry_plays["BUMP_SEQUENCE"]
                  = (IF anim.collision_sound THEN 5 ELSE 0)
           /\ entered["COLLISION_LOOP"] - anim.bump_timer > 500

\* BumpSequence was just left, with the sound loaded and a slow frame loop
C4_Witness ==
    /\ ran = "BUMP_SEQUENCE"
    /\ anim.phase = "COLLISION_LOOP"
    /\ anim.collision_sound
    /\ anim.bump_count = 5
    /\ pattern = <<1000>>

\* C5 as stated: in every run that passes through CatRun the meow is played
\* exactly once (here with the meow sound loaded).
C5_MeowExactlyOnce ==
    /\ anim.meow_plays <= 1
    /\ (anim.meow_sound /\ anim.phase # "CAT_RUN") => anim.meow_plays = 1

\* C6: an update in WalkingIn moves to Collision exactly when, after the
\* movement of that tick, A's centre x >= screen-centre - 50 and B's centre
\* x <= screen-centre + 50.
CentreX(ch) == ch.x + ch.width \div 2

C6_CollisionIffBothNearCentre ==
    ran = "WALKING_IN" =>
        ( anim.phase = "COLLISION" <=>
              /\ CentreX(anim.char1) >= SCREEN_WIDTH \div 2 - 50
              /\ CentreX(anim.char2) <= SCREEN_WIDTH \div 2 + 50 )

C6_Witness ==
    /\ ran = "WALKING_IN"
    /\ anim.phase = "COLLISION"
    /\ CentreX(anim.char1) >= SCREEN_WIDTH \div 2 - 50
    /\ CentreX(anim.char2) <= SCREEN_WIDTH \div 2 + 50

\* C7: after every update executed in CollisionLoop, a character with x < 0 has
\* direction +1 and a character with x > screenWidth - width has direction -1,
\* each character on its own.
WallRule(ch) ==
    /\ ch.x < 0 => ch.direction = 1
    /\ ch.x > SCREEN_WIDTH - ch.width => ch.direction = -1

C7_WallBounce ==
    ran = "COLLISION_LOOP" => WallRule(anim.char1) /\ WallRule(anim.char2)

\* both walls were hit: A beyond the left edge, B beyond the right edge
C7_Witness ==
    /\ ran = "COLLISION_LOOP"
    /\ anim.char1.x < 0
    /\ anim.char1.direction = 1
    /\ anim.char2.x > SCREEN_WIDTH - anim.char2.width
    /\ anim.char2.direction = -1


\* C8: a looping-span event with start s, duration d and base clip length
\* L > 0 whose clip loads is placed as repetitions of the base clip covering
\* exactly [s, s + d): repetitions * L >= d (no gap) and the placed clip
\* starts at s and lasts exactly d (no overrun).
IsSpan(i) == timeline[i].type = "walking_start"

SpanClips(i) == { k \in 1..Len(track.clips) : track.clips[k].index = i }

C8_LoopCoversSpanExactly ==
    track.mixed =>
        \A i \in 1..Len(timeline) :
            (IsSpan(i) /\ WALKING_FILE \in assets /\ walking_len > 0) =>
                /\ Cardinality(SpanClips(i)) = 1
                /\ \A k \in SpanClips(i) :
                       LET clip == track.clips[k]
                       IN  /\ clip.start = timeline[i].timestamp_ms
                           /\ clip.start + clip.duration
                                  = timeline[i].timestamp_ms + timeline[i].duration_ms
                           /\ clip.loops * walking_len >= timeline[i].duration_ms
                           /\ clip.material = clip.loops * walking_len

\* the example of the specification: s = 1000, d = 2500, L = 800
C8_Witness ==
    /\ track.mixed
    /\ walking_len = 800
    /\ \E k \in 1..Len(track.clips) :
           /\ track.clips[k].type = "walking_start"
           /\ track.clips[k].start = 1000
           /\ track.clips[k].start + track.clips[k].duration = 3500
           /\ track.clips[k].loops = 4

\* C9 as stated: for every Timeline, the empty one and one whose clips all
\* fail to load included, the mixdown produces an output track whose length is
\* the target duration.
C9_TrackLengthIsTarget ==
    track.mixed => (track.created /\ track.duration = total_duration)

AbsDiff(a, b) == IF a >= b THEN a - b ELSE b - a

\* C10 as stated: two runs from the same initial state with different tick
\* step sizes enter every phase at the same time, up to one tick step.
C10_SameEntryTimes ==
    \A p \in AnimationPhase :
        (entered[p] # None /\ enteredB[p] # None) =>
            AbsDiff(entered[p], enteredB[p]) <= Max(pattern[1], stepB)


\* ---- the Timeline at the hand-over to the mixdown
Handed == track.mixed

\* the loop ran until it closed itself in FINISHED
Complete == track.mixed /\ ~quit /\ anim.phase = "FINISHED"

EventsOfType(type) == { i \in 1..Len(timeline) : timeline[i].type = type }

SpansAt(start) ==
    { i \in EventsOfType("walking_start") : timeline[i].timestamp_ms = start }

\* C11 as stated: at the hand-over of a complete run, every interval during
\* which the walking loop played has exactly one span event, with the
\* interval's start as timestamp and stop - start as duration.
C11_OneSpanPerLoopInterval ==
    Complete =>
        \A k \in 1..Len(played.loops) :
            /\ Cardinality(SpansAt(played.loops[k].start)) = 1
            /\ \A i \in SpansAt(played.loops[k].start) :
                   timeline[i].duration_ms
                       = played.loops[k].stop - played.loops[k].start

\* C12 as stated: when the Timeline is handed to the mixdown, however the loop
\* ended, a span the recorder has open was appended with the final timestamp
\* as its end.
C12_OpenSpanClosedAtEnd ==
    (Handed /\ is_set(walking_start_time)) =>
        \E i \in SpansAt(walking_start_time) :
            timeline[i].timestamp_ms + timeline[i].duration_ms = clock

\* C13 as stated: the Timeline is in chronological order, an event appended
\* earlier never has a larger timestamp than one appended later.
C13_TimelineChronological ==
    \A i, j \in 1..Len(timeline) :
        i < j => timeline[i].timestamp_ms <= timeline[j].timestamp_ms

PhaseOfFile(file) ==
    CASE file \in { WATCH_IT_FILE, WATCH_IT_FILE_2 } -> "COLLISION"
      [] file = JUST_KIDDING_FILE -> "KIDDING_DIALOGUE"
      [] file = HEY_YA_FILE -> "HEY_YA_DIALOGUE"
      [] file = GO_TO_WORK_FILE -> "FINAL_DIALOGUE_1"
      [] file = DONT_CARE_FILE -> "FINAL_DIALOGUE_2"

FireTimes == { played.collisions[k] : k \in 1..Len(played.collisions) }

\* C14 as stated: every dialogue event carries the timestamp of the tick whose
\* update performed the transition into its phase, and every collision event
\* the timestamp of a tick on which the collision sound was fired.
C14_EventsStampedAtFiringTick ==
    /\ \A i \in EventsOfType("dialogue") :
           timeline[i].timestamp_ms = entered[PhaseOfFile(timeline[i].file)]
    /\ anim.collision_sound =>
           \A i \in EventsOfType("collision") :
               timeline[i].timestamp_ms \in FireTimes

\* C15 as stated: at the hand-over of a complete run the Timeline holds as
\* many collision events as the controller fired collision sounds.
C15_OneEventPerImpact ==
    (Complete /\ anim.collision_sound) =>
        Cardinality(EventsOfType("collision")) = Len(played.collisions)

DialogueEventsFor(files) ==
    { i \in EventsOfType("dialogue") : timeline[i].file \in files }

SingleSpeakerFiles ==
    { JUST_KIDDING_FILE, HEY_YA_FILE, GO_TO_WORK_FILE, DONT_CARE_FILE }

TwoSpeakerMoments ==
    { timeline[i].timestamp_ms :
          i \in DialogueEventsFor({ WATCH_IT_FILE, WATCH_IT_FILE_2 }) }

\* C16 as stated: the Timeline of a complete run has one two-speaker dialogue
\* moment and exactly three single-speaker dialogue events.
C16_Original_OneAndThree ==
    Complete =>
        /\ Cardinality(TwoSpeakerMoments) = 1
        /\ Cardinality(DialogueEventsFor(SingleSpeakerFiles)) = 3

\* C16: the Timeline of a complete run has two dialogue events for the
\* two-speaker line, one per voice and with one timestamp, and exactly four
\* single-speaker dialogue events, one for each of the four lines.
C16_TwoVoicesAndFourLines ==
    Complete =>
        /\ Cardinality(DialogueEventsFor({ WATCH_IT_FILE })) = 1
        /\ Cardinality(DialogueEventsFor({ WATCH_IT_FILE_2 })) = 1
        /\ Cardinality(TwoSpeakerMoments) = 1
        /\ \A f \in SingleSpeakerFiles :
               Cardinality(DialogueEventsFor({ f })) = 1
        /\ Cardinality(EventsOfType("dialogue")) = 6

C16_Witness ==
    /\ Complete
    /\ Cardinality(DialogueEventsFor(SingleSpeakerFiles)) = 4
    /\ Cardinality(DialogueEventsFor({ WATCH_IT_FILE, WATCH_IT_FILE_2 })) = 2

\* C17: the Timeline of a complete run has at least 6 collision events and at
\* least two looping-sound-span events.
C17_SixCollisionsTwoSpans ==
    Complete =>
        /\ Cardinality(EventsOfType("collision")) >= 6
        /\ Cardinality(EventsOfType("walking_start")) >= 2

C17_Witness ==
    /\ Complete
    /\ anim.bump_count = 5
    /\ Cardinality(EventsOfType("collision")) = 6
    /\ Cardinality(EventsOfType("walking_start")) = 4

Fails(i) == clip_file(timeline[i]) \notin assets

PlacedFor(i) == { k \in 1..Len(track.clips) : track.clips[k].index = i }

\* C18 as stated: in the mixdown an event whose clip fails to load is skipped,
\* every other event is still placed, and the failing event does not make the
\* mixdown or the export end in failure.
C18_FailingEventOnlySkipped ==
    (Handed /\ \E i \in 1..Len(timeline) : Fails(i)) =>
        /\ \A i \in 1..Len(timeline) :
               Cardinality(PlacedFor(i)) = (IF Fails(i) THEN 0 ELSE 1)
        /\ track.created
        /\ ffmpeg_ok(track)

MotionPausedPhases ==
    { "COLLISION", "KIDDING_DIALOGUE", "HEY_YA_DIALOGUE", "FINAL_DIALOGUE_1",
      "FINAL_DIALOGUE_2", "ALIEN_ABDUCTION", "FINISHED" }

\* C19 as stated: in every reachable state whose phase has paused the motion
\* of the characters (the phases after WalkingIn whose handlers do not move
\* them), both characters have speed 0.
C19_PausedMeansSpeedZero ==
    anim.phase \in MotionPausedPhases =>
        anim.char1.speed = 0 /\ anim.char2.speed = 0

\* C20 as stated: at the hand-over of a complete run every event's timestamp,
\* and every span's timestamp + duration, is at most the total duration
\* frame_count / FPS (compared in ms without rounding).
C20_EventsWithinTotalDuration ==
    Complete =>
        \A i \in 1..Len(timeline) :
            (timeline[i].timestamp_ms + timeline[i].duration_ms) * FPS
                <= frame_count * 1000


\* ---- the latest update, seen from the controller before and after it
DialoguePhases ==
    { "COLLISION", "KIDDING_DIALOGUE", "HEY_YA_DIALOGUE", "FINAL_DIALOGUE_1",
      "FINAL_DIALOGUE_2" }

LineOf(p) ==
    CASE p = "COLLISION" -> WATCH_IT
      [] p = "KIDDING_DIALOGUE" -> JUST_KIDDING
      [] p = "HEY_YA_DIALOGUE" -> HEY_YA
      [] p = "FINAL_DIALOGUE_1" -> GO_TO_WORK
      [] p = "FINAL_DIALOGUE_2" -> DONT_CARE

SpeakerOf(p) ==
    CASE p = "COLLISION" -> "both"
      [] p \in { "KIDDING_DIALOGUE", "FINAL_DIALOGUE_1" } -> "char1"
      [] p \in { "HEY_YA_DIALOGUE", "FINAL_DIALOGUE_2" } -> "char2"

DefaultOf(p) ==
    CASE p = "COLLISION" -> 2000
      [] p = "KIDDING_DIALOGUE" -> 3000
      [] p = "HEY_YA_DIALOGUE" -> 2000
      [] p = "FINAL_DIALOGUE_1" -> 2500
      [] p = "FINAL_DIALOGUE_2" -> 2000

GraceOf(p) == IF p = "FINAL_DIALOGUE_2" THEN 400 ELSE 0

Silent(p) == LineOf(p) \notin DOMAIN anim.dialogue_durations

\* C21: a dialogue phase whose line has no preloaded audio is still entered
\* (never skipped), shows its text and speaker while it is the phase, is held
\* until the first tick with elapsed > the line's default duration (2000, 3000,
\* 2000, 2500, 2000 ms; FinalDialogue2 with its 400 ms grace on top) and then
\* advances to the next phase, without any dialogue sound played.
C21_SilentDialogueStillHeld ==
    \A p \in DialoguePhases :
        Silent(p) =>
            /\ anim.phase = p =>
                   /\ anim.current_dialogue = LineOf(p)
                   /\ anim.dialogue_speaker = SpeakerOf(p)
            /\ Idx(anim.phase) > Idx(p) => entered[p] # None
            /\ ran = p =>
                   /\ PhaseLeft <=> ElapsedSinceEntry > DefaultOf(p) + GraceOf(p)
                   /\ PhaseLeft => Idx(anim.phase) = Idx(p) + 1
                   /\ anim.dialogue_plays = prev.dialogue_plays

C21_Witness ==
    /\ Silent("KIDDING_DIALOGUE")
    /\ ran = "KIDDING_DIALOGUE"
    /\ anim.phase = "HEY_YA_DIALOGUE"
    /\ anim.current_dialogue = HEY_YA
    /\ anim.dialogue_plays = 0

Fired(sound_loaded) == IF sound_loaded THEN 1 ELSE 0

\* C22: every state with phase Collision, the one right after the transition
\* included, has all effects of the transition: both speeds 0, both walking
\* flags false, both characters smiling and talking, the walking loop not
\* playing, the collision sound fired once, 'WATCH IT!' with speaker 'both'.
C22_CollisionEnteredWhole ==
    anim.phase = "COLLISION" =>
        /\ anim.char1.speed = 0 /\ anim.char2.speed = 0
        /\ ~anim.char1.is_walking /\ ~anim.char2.is_walking
        /\ anim.char1.is_smiling /\ anim.char2.is_smiling
        /\ anim.char1.is_talking /\ anim.char2.is_talking
        /\ ~loop_playing(anim) /\ ~is_sound_playing(anim)
        /\ anim.collision_plays = Fired(anim.collision_sound)
        /\ anim.current_dialogue = WATCH_IT
        /\ anim.dialogue_speaker = "both"
        /\ anim.dialogue_timer = entered["COLLISION"]
        /\ ran = "WALKING_IN" =>
               anim.collision_plays
                   = prev.collision_plays + Fired(anim.collision_sound)

\* the transition tick, with the loop playing and the characters walking
\* just before it
C22_Witness ==
    /\ ran = "WALKING_IN"
    /\ anim.phase = "COLLISION"
    /\ loop_playing(prev)
    /\ prev.char1.is_walking /\ prev.char1.speed > 0
    /\ anim.collision_plays = 1

\* C23 as stated: CatRun is left exactly on the first tick whose timestamp is
\* at least 700 ms later than the timestamp of the run's first tick, also when
\* that first timestamp is 0.
C23_CatRunFromFirstTick ==
    ran = "CAT_RUN" =>
        (PhaseLeft <=> clock - entered["CAT_RUN"] >= 700)

\* C24: FinalDialogue2 is left exactly on the first tick with elapsed >
\* duration + 400, and then the phase is AlienAbduction and character B is not
\* talking.
C24_FinalDialogue2Grace ==
    ran = "FINAL_DIALOGUE_2" =>
        /\ PhaseLeft <=>
               ElapsedSinceEntry > MeasuredOr(DONT_CARE, 2000) + 400
        /\ PhaseLeft =>
               /\ anim.phase = "ALIEN_ABDUCTION"
               /\ ~anim.char2.is_talking
        /\ ~PhaseLeft => anim.char2.is_talking

\* held inside the grace period: the line is over, the phase is not
C24_Witness ==
    /\ ran = "FINAL_DIALOGUE_2"
    /\ anim.phase = "FINAL_DIALOGUE_2"
    /\ ElapsedSinceEntry > MeasuredOr(DONT_CARE, 2000)

AbductionElapsed == clock - prev.abduction_start_time

\* C25 as stated: in AlienAbduction B's y is unchanged on ticks with elapsed
\* <= 1500, changes only on ticks with 1500 < elapsed <= 3500, and both x and
\* A's y never change.
C25_LiftOnlyInsideSpan ==
    ran = "ALIEN_ABDUCTION" =>
        /\ AbductionElapsed <= 1500 => anim.char2.y = prev.char2.y
        /\ anim.char2.y # prev.char2.y =>
               AbductionElapsed > 1500 /\ AbductionElapsed <= 1500 + 2000
        /\ anim.char1.x = prev.char1.x
        /\ anim.char2.x = prev.char2.x
        /\ anim.char1.y = prev.char1.y

\* C26: an update in WalkingOut moves both characters and leaves for Finished
\* exactly when, after that movement, A's x > screen width and B's x < -(B's
\* width); otherwise the phase stays WalkingOut.
C26_FinishedIffBothOffScreen ==
    ran = "WALKING_OUT" =>
        /\ anim.char1.x = prev.char1.x + prev.char1.speed * prev.char1.direction
        /\ anim.char2.x = prev.char2.x + prev.char2.speed * prev.char2.direction
        /\ anim.phase = "FINISHED" <=>
               /\ anim.char1.x > SCREEN_WIDTH
               /\ anim.char2.x < -anim.char2.width
        /\ anim.phase \in { "WALKING_OUT", "FINISHED" }

\* the tick before the last: A's right part is still on screen
C26_Witness ==
    /\ ran = "WALKING_OUT"
    /\ anim.phase = "WALKING_OUT"
    /\ anim.char1.x > SCREEN_WIDTH - anim.char1.width
    /\ anim.char2.x < 0

MovedOverlap ==
    colliderect(get_rect(move(prev.char1)), get_rect(move(prev.char2)))

\* C27: on a CollisionLoop tick where the rectangles overlap after the move,
\* both directions are reversed and each character is pushed 5 px away on that
\* tick, the rectangles do not overlap at its end, and they do not overlap
\* after the next tick's move either.
C27_BounceSeparates ==
    (ran = "COLLISION_LOOP" /\ MovedOverlap) =>
        /\ anim.char1.direction = -prev.char1.direction
        /\ anim.char2.direction = -prev.char2.direction
        /\ anim.char1.x = move(prev.char1).x - 5
        /\ anim.char2.x = move(prev.char2).x + 5
        /\ ~colliderect(get_rect(anim.char1), get_rect(anim.char2))
        /\ ~colliderect(get_rect(move(anim.char1)), get_rect(move(anim.char2)))

C27_Witness ==
    /\ ran = "COLLISION_LOOP"
    /\ anim.phase = "COLLISION_LOOP"
    /\ MovedOverlap
    /\ anim.char1.direction = -1

\* C28: finished_time is unset after every update executed in another phase,
\* is set by the first update executed in Finished (to the clock read by that
\* update) and keeps its value in every later update.
C28_FinishedTimeSetOnce ==
    /\ ran # "FINISHED" => anim.finished_time = None
    /\ ran = "FINISHED" =>
           /\ anim.finished_time # None
           /\ prev.finished_time = None =>
                  anim.finished_time \in { clock + lag : lag \in WallLags }
           /\ prev.finished_time # None =>
                  anim.finished_time = prev.finished_time

\* a later update in Finished, with the value kept
C28_Witness ==
    /\ ran = "FINISHED"
    /\ prev.finished_time # None
    /\ anim.finished_time = prev.finished_time
    /\ clock > anim.finished_time + 1

\* C29: every event in the Timeline has timestamp >= 0 and duration >= 0.
C29_NonNegativeEvents ==
    \A i \in 1..Len(timeline) :
        /\ timeline[i].timestamp_ms >= 0
        /\ timeline[i].duration_ms >= 0

C29_Witness ==
    \E i \in EventsOfType("walking_start") :
        /\ timeline[i].duration_ms > 0
        /\ timeline[i].timestamp_ms > 0

DirectionChanged(name) == anim[name].direction # prev[name].direction

BumpSwitch ==
    ran = "BUMP_SEQUENCE" /\ anim.bump_state # prev.bump_state

LoopImpact == ran = "COLLISION_LOOP" /\ MovedOverlap

AtEdge(ch) == ch.x < 0 \/ ch.x > SCREEN_WIDTH - ch.width

EdgeBounce(name) ==
    ran = "COLLISION_LOOP" /\ ~MovedOverlap /\ AtEdge(move(prev[name]))

\* C30 as stated: direction is -1 or +1 and changes only on a tick that makes
\* a phase transition or handles a character-to-character collision (the bump
\* sub-state switches included).
C30_Original_TurnsOnlyAtTransitionOrImpact ==
    \A name \in { "char1", "char2" } :
        /\ anim[name].direction \in { -1, 1 }
        /\ DirectionChanged(name) => (PhaseLeft \/ BumpSwitch \/ LoopImpact)

\* C30: direction is -1 or +1 and changes only on a tick that makes a phase
\* transition, switches the bump sub-state, handles a character-to-character
\* collision in CollisionLoop, or on which the character is beyond a screen
\* edge in CollisionLoop.
C30_TurnsOnlyAtTransitionImpactOrEdge ==
    \A name \in { "char1", "char2" } :
        /\ anim[name].direction \in { -1, 1 }
        /\ DirectionChanged(name) =>
               (PhaseLeft \/ BumpSwitch \/ LoopImpact \/ EdgeBounce(name))
        /\ LoopImpact /\ ~PhaseLeft => DirectionChanged(name)

\* a turn at the wall and a turn at the other character
C30_Witness ==
    /\ DirectionChanged("char1")
    /\ ~PhaseLeft
    /\ EdgeBounce("char1")
    /\ Len(played.collisions) > 6

\* an update executed in BumpSequence with the sub-state backing_up
BackingUpTick == ran = "BUMP_SEQUENCE" /\ prev.bump_state = "backing_up"

\* an update executed in BumpSequence that handled an impact
ImpactTick ==
    /\ ran = "BUMP_SEQUENCE"
    /\ prev.bump_state = "approaching"
    /\ anim.bump_state = "backing_up"

\* C31: after an impact at time t (bump_timer) the sub-state stays backing_up
\* on every tick with timestamp <= t + 500 and is left on the first tick with
\* timestamp > t + 500, to CollisionLoop when the counter is >= 5 and otherwise
\* to approaching with directions A +1, B -1; an impact stamps bump_timer with
\* its tick, and two consecutive impacts are more than 500ms apart.
C31_BackingUpLastsHalfSecond ==
    /\ BackingUpTick =>
           /\ clock - prev.bump_timer <= BUMP_BACKUP_DURATION =>
                  /\ anim.phase = "BUMP_SEQUENCE"
                  /\ anim.bump_state = "backing_up"
                  /\ anim.bump_timer = prev.bump_timer
           /\ clock - prev.bump_timer > BUMP_BACKUP_DURATION =>
                  IF prev.bump_count >= BUMP_TARGET
                  THEN anim.phase = "COLLISION_LOOP"
                  ELSE /\ anim.phase = "BUMP_SEQUENCE"
                       /\ anim.bump_state = "approaching"
                       /\ anim.char1.direction = 1
                       /\ anim.char2.direction = -1
    /\ ImpactTick =>
           /\ anim.bump_timer = clock
           /\ prev.bump_count >= 1 =>
                  clock - prev.bump_timer > BUMP_BACKUP_DURATION

\* a tick exactly 500ms after the impact: still backing up
C31_Witness ==
    /\ BackingUpTick
    /\ clock - prev.bump_timer = BUMP_BACKUP_DURATION
    /\ anim.bump_state = "backing_up"
    /\ anim.bump_count = 2

MovementPhases ==
    { "WALKING_IN", "BUMP_SEQUENCE", "COLLISION_LOOP", "WALKING_OUT" }

\* C32: in every reachable state in which the walking loop is playing the
\* phase is WalkingIn, BumpSequence, CollisionLoop or WalkingOut.
C32_LoopOnlyInMovementPhases ==
    loop_playing(anim) => anim.phase \in MovementPhases

\* the loop playing in CollisionLoop, after one-shot sounds were fired
C32_Witness ==
    /\ loop_playing(anim)
    /\ anim.phase = "COLLISION_LOOP"
    /\ anim.current_sound = "walking"
    /\ anim.collision_plays > BUMP_TARGET + 1

\* the phases whose first update starts the loop of a stretch
StretchStarts == { "WALKING_IN", "BUMP_SEQUENCE", "WALKING_OUT" }

StretchesBegun ==
    Cardinality({ p \in StretchStarts : ran = p \/ Idx(anim.phase) > Idx(p) })

\* C33: the walking loop is started once per contiguous stretch of movement
\* phases (WalkingIn; BumpSequence with CollisionLoop; WalkingOut) and never
\* while it is the manager's current sound, so it plays on one channel at
\* most, whatever one-shot sounds were fired in between.
C33_LoopStartedOncePerStretch ==
    /\ anim.walking_channels <= 1
    /\ anim.loop_starts = Fired(anim.walking_sound) * StretchesBegun
    /\ anim.loop_starts # prev.loop_starts => prev.current_sound # "walking"

\* a backing-up tick after impacts fired the collision sound: still the
\* second start
C33_Witness ==
    /\ BackingUpTick
    /\ prev.bump_count >= 2
    /\ anim.collision_plays >= 3
    /\ loop_playing(anim)
    /\ anim.loop_starts = 2

\* the characters that talk in a phase
Talkers(p) ==
    [ char1 |-> p \in { "COLLISION", "KIDDING_DIALOGUE", "FINAL_DIALOGUE_1" },
      char2 |-> p \in { "COLLISION", "HEY_YA_DIALOGUE", "FINAL_DIALOGUE_2" } ]

\* C34: the talking flags match the phase's speaker: both in Collision, only A
\* in KiddingDialogue and FinalDialogue1, only B in HeyYaDialogue and
\* FinalDialogue2, neither in every other phase.
C34_TalkingMatchesSpeaker ==
    \A name \in { "char1", "char2" } :
        anim[name].is_talking = Talkers(anim.phase)[name]

C34_Witness ==
    /\ anim.phase = "FINAL_DIALOGUE_2"
    /\ ran = "FINAL_DIALOGUE_2"
    /\ anim.char2.is_talking
    /\ ~anim.char1.is_talking

StillPhases ==
    { "CAT_RUN", "COLLISION", "KIDDING_DIALOGUE", "HEY_YA_DIALOGUE",
      "FINAL_DIALOGUE_1", "FINAL_DIALOGUE_2", "FINISHED" }

\* C35: an update executed in CatRun, Collision, KiddingDialogue,
\* HeyYaDialogue, FinalDialogue1, FinalDialogue2 or Finished leaves both
\* characters' x, y and direction unchanged.
C35_StillPhasesKeepPositions ==
    ran \in StillPhases =>
        \A name \in { "char1", "char2" } :
            /\ anim[name].x = prev[name].x
            /\ anim[name].y = prev[name].y
            /\ anim[name].direction = prev[name].direction

\* the update that starts BumpSequence sets the directions it already had
C35_Witness ==
    /\ ran = "HEY_YA_DIALOGUE"
    /\ anim.phase = "BUMP_SEQUENCE"
    /\ anim.char1.x = prev.char1.x
    /\ anim.char1.direction = 1
    /\ anim.char2.direction = -1

\* C36: character A is strictly left of character B in every reachable state
\* up to and including AlienAbduction.
C36_ALeftOfB ==
    Idx(anim.phase) <= Idx("ALIEN_ABDUCTION") => anim.char1.x < anim.char2.x

\* the closest approach: an impact in BumpSequence
C36_Witness ==
    /\ ImpactTick
    /\ colliderect(get_rect(anim.char1), get_rect(anim.char2))
    /\ anim.char1.x < anim.char2.x

\* C37: the bump counter is in 0..5, is 0 before BumpSequence, is 5 from
\* CollisionLoop on, and changes only by +1 on an update executed in
\* BumpSequence's approaching state whose move makes the rectangles overlap.
C37_BumpCounterRange ==
    /\ anim.bump_count \in 0..BUMP_TARGET
    /\ Idx(anim.phase) < Idx("BUMP_SEQUENCE") => anim.bump_count = 0
    /\ Idx(anim.phase) > Idx("BUMP_SEQUENCE") => anim.bump_count = BUMP_TARGET
    /\ anim.bump_count # prev.bump_count =>
           /\ ImpactTick
           /\ MovedOverlap
           /\ anim.bump_count = prev.bump_count + 1
    /\ ImpactTick => anim.bump_count = prev.bump_count + 1

C37_Witness ==
    /\ ImpactTick
    /\ prev.bump_count = 2
    /\ anim.bump_count = 3

\* C38 as stated: when the Timeline of a run in which the controller fired
\* the meow sound is handed to the mixdown, it contains exactly one meow event.
C38_MeowOnTimeline ==
    (Handed /\ anim.meow_plays >= 1) =>
        Cardinality(EventsOfType("meow")) = 1

\* C39: driven by ticks whose timestamps grow without bound, the controller
\* eventually reaches Finished.
C39_EventuallyFinished == <>(anim.phase = "FINISHED")

\* the update that ends WalkingOut, after all five bumps
C39_Witness ==
    /\ ran = "WALKING_OUT"
    /\ anim.phase = "FINISHED"
    /\ anim.bump_count = BUMP_TARGET
    /\ both_off_screen(anim)

\* phase, bump sub-state, bump count and the characters' positions and
\* directions
SameMachine(a, b) ==
    /\ a.phase = b.phase
    /\ a.bump_state = b.bump_state
    /\ a.bump_count = b.bump_count
    /\ \A name \in { "char1", "char2" } :
           /\ a[name].x = b[name].x
           /\ a[name].y = b[name].y
           /\ a[name].direction = b[name].direction

\* C40: two runs fed the same tick timestamps and dialogue durations that
\* differ only in which of the walking, collision and meow sounds are loaded
\* have the same phase, bump sub-state, bump count and character positions
\* after every tick.
C40_SoundsDoNotSteer ==
    (clockB = clock /\ stepB > 0) => SameMachine(anim, animB)

\* an impact in CollisionLoop heard in one run and silent in the other
C40_Witness ==
    /\ clockB = clock
    /\ stepB > 0
    /\ anim.phase = "COLLISION_LOOP"
    /\ anim.collision_plays > BUMP_TARGET + 1
    /\ anim.walking_sound
    /\ ~animB.collision_sound
    /\ ~animB.walking_sound
    /\ animB.collision_plays = 0

====
